---- MODULE Spec2Model ----
(***************************************************************************)
(* Model of recommenders/datasets/sparse.py: class AffinityMatrix.         *)
(*   gen_affinity_matrix  (calls _gen_index, then scipy coo_matrix)        *)
(*   map_back_sparse                                                       *)
(* A pandas DataFrame is a sequence of records, a dict is a function, the  *)
(* dense matrix is a record [shape, cell] with cell indexed by <<i, j>>.   *)
(***************************************************************************)
EXTENDS Integers, Sequences, FiniteSets, TLC

VARIABLES
    pc,              \* "init" | "generated" | "failed" | "mapped"
    df,              \* self.df: the observation table
    items_list,      \* self.items_list: [given, items]; given = FALSE is None
    df_,             \* self.df_: sorted table with hashedItems / hashedUsers
    Nusers, Nitems,  \* self.Nusers, self.Nitems
    map_users, map_items,            \* identifier -> index
    map_back_users, map_back_items,  \* index -> identifier
    AM,              \* self.AM
    X, kind,         \* the arguments of the last map_back_sparse call
    out_df,          \* the DataFrame map_back_sparse returned
    err              \* exception raised by the last call, or "none"

vars == <<pc, df, items_list, df_, Nusers, Nitems, map_users, map_items,
          map_back_users, map_back_items, AM, X, kind, out_df, err>>

----------------------------------------------------------------------------
(* Bounds and input universes *)

MaxObs == 2          \* longest observation table
MaxRows == 2         \* most rows of a matrix handed to map_back_sparse
MaxCols == 2         \* most columns of such a matrix

Users == {1, 2}
Items == {1, 2}
Ratings == {-1, 0, 1}

\* pandas' missing value: what Series.map yields for a key the dict lacks
NaN == -1
\* float NaN converted to the integer index dtype is undefined in numpy:
\* the most negative integer on x86-64 builds, 0 on aarch64 builds
INT_MIN == (-2147483647) - 1
NaNCastOutcomes == {INT_MIN, 0}

col_rating == "rating"
col_pred == "prediction"
Kinds == {"ratings", "predictions"}

Records == [user : Users, item : Items, rating : Ratings]

SeqsUpTo(S, n) == UNION {[1..k -> S] : k \in 0..n}

Range(s) == {s[k] : k \in DOMAIN s}

IsUnique(s) == \A a, b \in DOMAIN s : s[a] = s[b] => a = b

Tables == SeqsUpTo(Records, MaxObs)

\* items_list is documented as "a list of unique items"
ItemsLists ==
    {[given |-> FALSE, items |-> <<>>]} \cup
    {[given |-> TRUE, items |-> l] :
        l \in {s \in SeqsUpTo(Items, Cardinality(Items)) : IsUnique(s)}}

EmptyMatrix == [shape |-> <<0, 0>>, cell |-> [p \in {} |-> 0]]
NoFrame == [col |-> "", rows |-> <<>>]

----------------------------------------------------------------------------
(* pandas / numpy / scipy primitives the methods use *)

\* Series.unique(): distinct values in order of first appearance
RECURSIVE Unique(_)
Unique(s) ==
    IF s = <<>> THEN <<>>
    ELSE LET h == Unique(SubSeq(s, 1, Len(s) - 1))
             x == s[Len(s)]
         IN  IF x \in Range(h) THEN h ELSE Append(h, x)

\* mutant: enumerate(seq, 1), the indices start at 1
DictFromEnumerateFromOne(seq) ==
    [x \in Range(seq) |->
        CHOOSE i \in 1..Len(seq) :
            /\ seq[i] = x
            /\ \A j \in 1..Len(seq) : seq[j] = x => j <= i]

\* {x: i for i, x in enumerate(seq)}: a later index overwrites an earlier one
DictFromEnumerate(seq) ==
    [x \in Range(seq) |->
        CHOOSE i \in 0..(Len(seq) - 1) :
            /\ seq[i + 1] = x
            /\ \A j \in 0..(Len(seq) - 1) : seq[j + 1] = x => j <= i]

\* mutant: dict(enumerate(seq, 1))
DictEnumerateFromOne(seq) == [i \in 1..Len(seq) |-> seq[i]]

\* dict(enumerate(seq))
DictEnumerate(seq) == [i \in 0..(Len(seq) - 1) |-> seq[i + 1]]

\* Series.map(dict) on one value: NaN for a key the dict does not have
SeriesMap(d, k) == IF k \in DOMAIN d THEN d[k] ELSE NaN

Column(frame, name) == [k \in DOMAIN frame |-> frame[k][name]]

Perms(n) == {f \in [1..n -> 1..n] : \A a, b \in 1..n : f[a] = f[b] => a = b}

\* DataFrame.sort_values(by=[col_user]) with the default, unstable quicksort:
\* every ordering of the rows with non-decreasing user is a possible result
SortValues(frame) ==
    {s \in {[k \in DOMAIN frame |-> frame[f[k]]] : f \in Perms(Len(frame))} :
        \A a, b \in DOMAIN s : a < b => s[a].user <= s[b].user}

\* conversion of a coordinate column to the index dtype inside coo_matrix
CastIndex(v, c) == IF v = NaN THEN c ELSE v

\* coo_matrix._check(): raised only when there is at least one entry
CooCheckFails(rows, cols, shape) ==
    /\ Len(rows) > 0
    /\ \/ \E k \in DOMAIN rows : rows[k] >= shape[1] \/ rows[k] < 0
       \/ \E k \in DOMAIN cols : cols[k] >= shape[2] \/ cols[k] < 0

RECURSIVE SumAt(_, _, _, _, _)
SumAt(data, rows, cols, p, k) ==
    IF k = 0 THEN 0
    ELSE SumAt(data, rows, cols, p, k - 1) +
         (IF <<rows[k], cols[k]>> = p THEN data[k] ELSE 0)

\* mutant: row and column coordinates exchanged
ToArrayTransposed(data, rows, cols, shape) ==
    [shape |-> shape,
     cell  |-> [p \in (0..(shape[1] - 1)) \X (0..(shape[2] - 1)) |->
                    SumAt(data, cols, rows, p, Len(data))]]

MaxPlusOne(s) ==
    IF s = <<>> THEN 0 ELSE 1 + CHOOSE v \in Range(s) : \A w \in Range(s) : w <= v

\* mutant: no shape argument, coo_matrix infers it from the largest coordinates
ToArrayInferredShape(data, rows, cols, shape) ==
    [shape |-> <<MaxPlusOne(rows), MaxPlusOne(cols)>>,
     cell  |-> [p \in (0..(MaxPlusOne(rows) - 1)) \X (0..(MaxPlusOne(cols) - 1)) |->
                    SumAt(data, rows, cols, p, Len(data))]]

\* mutant: a later entry overwrites an earlier one with the same coordinates
ToArrayLastWins(data, rows, cols, shape) ==
    [shape |-> shape,
     cell  |-> [p \in (0..(shape[1] - 1)) \X (0..(shape[2] - 1)) |->
                    LET at == {k \in DOMAIN data : <<rows[k], cols[k]>> = p}
                    IN  IF at = {} THEN 0
                        ELSE data[CHOOSE k \in at : \A n \in at : n <= k]]]

\* coo_matrix(...).toarray(): entries with the same coordinates are summed
ToArray(data, rows, cols, shape) ==
    [shape |-> shape,
     cell  |-> [p \in (0..(shape[1] - 1)) \X (0..(shape[2] - 1)) |->
                    SumAt(data, rows, cols, p, Len(data))]]

----------------------------------------------------------------------------
(* State machine *)

Init ==
    /\ pc = "init"
    /\ df \in Tables
    /\ items_list \in ItemsLists
    /\ df_ = <<>>
    /\ Nusers = 0
    /\ Nitems = 0
    /\ map_users = <<>>
    /\ map_items = <<>>
    /\ map_back_users = <<>>
    /\ map_back_items = <<>>
    /\ AM = EmptyMatrix
    /\ X = EmptyMatrix
    /\ kind = ""
    /\ out_df = NoFrame
    /\ err = "none"

\* _gen_index: lines 76-98, for the sorted table `sorted`
UniqueUsers(sorted) == Unique(Column(sorted, "user"))
\* mutant: items_list ignored, the items always come from the table
UniqueItemsFromTable(sorted) == Unique(Column(sorted, "item"))

UniqueItems(sorted) ==
    IF items_list.given THEN items_list.items
    ELSE Unique(Column(sorted, "item"))

Hashed(sorted, mu, mi) ==
    [k \in DOMAIN sorted |->
        [user        |-> sorted[k].user,
         item        |-> sorted[k].item,
         rating      |-> sorted[k].rating,
         hashedItems |-> SeriesMap(mi, sorted[k].item),
         hashedUsers |-> SeriesMap(mu, sorted[k].user)]]

\* gen_affinity_matrix: _gen_index, then coo_matrix(...).toarray()
GenAffinityMatrix ==
    /\ pc = "init"
    /\ \E sorted \in SortValues(df), c \in NaNCastOutcomes :
         LET unique_users == UniqueUsers(sorted)
             unique_items == UniqueItems(sorted)
             mu == DictFromEnumerate(unique_users)
             mi == DictFromEnumerate(unique_items)
             h  == Hashed(sorted, mu, mi)
             ratings == Column(h, "rating")
             usr_id == [k \in DOMAIN h |-> CastIndex(h[k].hashedUsers, c)]
             itm_id == [k \in DOMAIN h |-> CastIndex(h[k].hashedItems, c)]
             shape == <<Len(unique_users), Len(unique_items)>>
         IN  /\ df_' = h
             /\ Nusers' = Len(unique_users)
             /\ Nitems' = Len(unique_items)
             /\ map_users' = mu
             /\ map_items' = mi
             /\ map_back_users' = DictEnumerate(unique_users)
             /\ map_back_items' = DictEnumerate(unique_items)
             /\ IF CooCheckFails(usr_id, itm_id, shape)
                THEN /\ pc' = "failed"
                     /\ err' = "ValueError"
                     /\ AM' = AM
                ELSE /\ pc' = "generated"
                     /\ err' = "none"
                     /\ AM' = ToArray(ratings, usr_id, itm_id, shape)
    /\ UNCHANGED <<df, items_list, X, kind, out_df>>

\* mutant: X[i, :] > 0, negative values are dropped
RECURSIVE WherePositive(_, _, _)
WherePositive(Xm, i, n) ==
    IF n = 0 THEN <<>>
    ELSE LET rest == WherePositive(Xm, i, n - 1)
         IN  IF Xm.cell[<<i, n - 1>>] > 0 THEN Append(rest, n - 1) ELSE rest

\* mutant: the non-zero columns in descending order
RECURSIVE WhereNonZeroDescending(_, _, _)
WhereNonZeroDescending(Xm, i, n) ==
    IF n = 0 THEN <<>>
    ELSE LET rest == WhereNonZeroDescending(Xm, i, n - 1)
         IN  IF Xm.cell[<<i, n - 1>>] # 0 THEN <<n - 1>> \o rest ELSE rest

\* np.where(X[i, :] != 0): the columns of row i that are not zero, ascending
RECURSIVE WhereNonZero(_, _, _)
WhereNonZero(Xm, i, n) ==
    IF n = 0 THEN <<>>
    ELSE LET rest == WhereNonZero(Xm, i, n - 1)
         IN  IF Xm.cell[<<i, n - 1>>] # 0 THEN Append(rest, n - 1) ELSE rest

\* lines 158-168: userids, items and ratings of rows 0..m-1, flattened
RECURSIVE FlattenRows(_, _)
FlattenRows(Xm, m) ==
    IF m = 0 THEN <<>>
    ELSE LET i == m - 1
             items == WhereNonZero(Xm, i, Xm.shape[2])
         IN  FlattenRows(Xm, i) \o
             [k \in 1..Len(items) |->
                 [user |-> i, item |-> items[k],
                  value |-> Xm.cell[<<i, items[k]>>]]]

\* line 170
ColOut(kd) == IF kd = "ratings" THEN col_rating ELSE col_pred

\* lines 178-179: both identifier columns mapped through the inverse dicts
MapBackIds(rows, mbu, mbi) ==
    [k \in DOMAIN rows |->
        [user  |-> SeriesMap(mbu, rows[k].user),
         item  |-> SeriesMap(mbi, rows[k].item),
         value |-> rows[k].value]]

\* map_back_sparse(X, kind); it needs the dicts _gen_index has set
MapBackSparse(Xin, kd) ==
    /\ X' = Xin
    /\ kind' = kd
    /\ out_df' = [col  |-> ColOut(kd),
                  rows |-> MapBackIds(FlattenRows(Xin, Xin.shape[1]),
                                      map_back_users, map_back_items)]
    /\ err' = "none"
    /\ pc' = "mapped"
    /\ UNCHANGED <<df, items_list, df_, Nusers, Nitems, map_users, map_items,
                   map_back_users, map_back_items, AM>>

\* the round trip: map_back_sparse on the matrix gen_affinity_matrix returned
MapBackOwn ==
    /\ pc = "generated"
    /\ \E kd \in Kinds : MapBackSparse(AM, kd)

Next == GenAffinityMatrix \/ MapBackOwn

Spec == Init /\ [][Next]_vars

----------------------------------------------------------------------------
(* map_back_sparse on an arbitrary matrix, with the dicts of a small table *)

Matrices ==
    UNION {{[shape |-> <<m, n>>, cell |-> c] :
                c \in [(0..(m - 1)) \X (0..(n - 1)) -> Ratings]} :
           m \in 0..MaxRows, n \in 0..MaxCols}

\* tables with at most one record per user: its own item, rated 1
BackTables ==
    {t \in Tables : /\ IsUnique(Column(t, "user"))
                    /\ \A k \in DOMAIN t : t[k].rating = 1 /\ t[k].item = t[k].user}
\* no items_list, or both items in reverse order
BackLists ==
    {l \in ItemsLists : l.given => l.items = <<2, 1>>}

InitBack == Init /\ df \in BackTables /\ items_list \in BackLists

MapBackAny ==
    /\ pc = "generated"
    /\ \E Xin \in Matrices, kd \in Kinds : MapBackSparse(Xin, kd)

NextBack == GenAffinityMatrix \/ MapBackAny

SpecBack == InitBack /\ [][NextBack]_vars

----------------------------------------------------------------------------
(* Vocabulary used by the properties, all stated on the inputs df, items_list *)

DistinctUsers == {df[k].user : k \in DOMAIN df}
ObservedItems == {df[k].item : k \in DOMAIN df}

\* no two records share a (user, item) pair
NoDupPairs ==
    \A a, b \in DOMAIN df :
        (df[a].user = df[b].user /\ df[a].item = df[b].item) => a = b

\* every observed item has a column: no items_list, or a list that holds it
ItemsCovered ==
    items_list.given => ObservedItems \subseteq Range(items_list.items)

UnobservedItems ==
    IF items_list.given THEN Range(items_list.items) \ ObservedItems ELSE {}

ExpectedNitems ==
    IF items_list.given THEN Len(items_list.items)
    ELSE Cardinality(ObservedItems)

HasMatrix == pc \in {"generated", "mapped"}

Values(f) == {f[x] : x \in DOMAIN f}

\* the non-zero observations as output records
NonZeroTriples ==
    {[user |-> df[k].user, item |-> df[k].item, value |-> df[k].rating] :
        k \in {n \in DOMAIN df : df[n].rating # 0}}

RECURSIVE PairSum(_, _, _)
PairSum(u, i, k) ==
    IF k = 0 THEN 0
    ELSE PairSum(u, i, k - 1) +
         (IF df[k].user = u /\ df[k].item = i THEN df[k].rating ELSE 0)

PairCount(u, i) ==
    Cardinality({k \in DOMAIN df : df[k].user = u /\ df[k].item = i})

NonZeroCells(Xm) == {p \in DOMAIN Xm.cell : Xm.cell[p] # 0}
LexLess(q, p) == q[1] < p[1] \/ (q[1] = p[1] /\ q[2] < p[2])

----------------------------------------------------------------------------
(* Properties *)

\* C1: round trip. For a table without duplicate (user, item) pairs whose
\* items all have a column, map_back_sparse(gen_affinity_matrix(), "ratings")
\* holds exactly the non-zero (user, item, rating) triples of the table, each
\* once, under the rating column; the right-hand side is a set of the table's
\* records, so the result is the same for every order of the records.
RoundTrip ==
    (pc = "mapped" /\ kind = "ratings" /\ NoDupPairs /\ ItemsCovered) =>
        /\ out_df.col = col_rating
        /\ Range(out_df.rows) = NonZeroTriples
        /\ Len(out_df.rows) = Cardinality(NonZeroTriples)

RoundTripWitness ==
    /\ pc = "mapped" /\ kind = "ratings" /\ NoDupPairs /\ ItemsCovered
    /\ Len(df) = 2
    /\ df[1].user > df[2].user
    /\ df[1].rating = 0 /\ df[2].rating = -1
    /\ Len(out_df.rows) = 1

\* C2: cell semantics. For a table without duplicate pairs whose items all
\* have a column, the cell at (map_users[u], map_items[i]) is r for every
\* observation (u, i, r), and every cell that belongs to no observation is 0.
CellSemantics ==
    (HasMatrix /\ NoDupPairs /\ ItemsCovered) =>
        /\ \A k \in DOMAIN df :
             /\ <<map_users[df[k].user], map_items[df[k].item]>>
                    \in DOMAIN AM.cell
             /\ AM.cell[<<map_users[df[k].user], map_items[df[k].item]>>]
                    = df[k].rating
        /\ \A p \in DOMAIN AM.cell :
             (~ \E k \in DOMAIN df :
                  p = <<map_users[df[k].user], map_items[df[k].item]>>)
                 => AM.cell[p] = 0

CellSemanticsWitness ==
    /\ pc = "generated" /\ NoDupPairs /\ ItemsCovered
    /\ Len(df) = 2
    /\ df[1].user # df[2].user /\ df[1].item # df[2].item
    /\ df[1].rating = 0 /\ df[2].rating = 1
    /\ Cardinality(DOMAIN AM.cell) = 4

\* C3: bijection. After _gen_index the inverse dicts are the exact key/value
\* swap of the forward dicts: map_back[map[x]] = x for every key x, the
\* inverse has no other keys, and both have the same number of entries.
Bijection ==
    pc # "init" =>
        /\ \A x \in DOMAIN map_users :
             /\ map_users[x] \in DOMAIN map_back_users
             /\ map_back_users[map_users[x]] = x
        /\ \A y \in DOMAIN map_items :
             /\ map_items[y] \in DOMAIN map_back_items
             /\ map_back_items[map_items[y]] = y
        /\ DOMAIN map_back_users = Values(map_users)
        /\ DOMAIN map_back_items = Values(map_items)
        /\ Cardinality(DOMAIN map_back_users) = Cardinality(DOMAIN map_users)
        /\ Cardinality(DOMAIN map_back_items) = Cardinality(DOMAIN map_items)
        /\ DOMAIN map_users = DistinctUsers
        /\ DOMAIN map_items =
             (IF items_list.given THEN Range(items_list.items)
              ELSE ObservedItems)

BijectionWitness ==
    /\ pc = "generated"
    /\ Cardinality(DOMAIN map_users) = 2
    /\ items_list.given /\ Cardinality(DOMAIN map_items) = 2
    /\ map_back_items[0] = 2

\* C4: contiguity. After _gen_index the values of map_users are exactly
\* 0..Nusers-1 and those of map_items exactly 0..Nitems-1, no value twice;
\* Nusers is the number of distinct users of the table, Nitems the number of
\* distinct items of the table or the length of the supplied items_list.
Contiguity ==
    pc # "init" =>
        /\ Nusers = Cardinality(DistinctUsers)
        /\ Nitems = ExpectedNitems
        /\ Values(map_users) = 0..(Nusers - 1)
        /\ Values(map_items) = 0..(Nitems - 1)
        /\ \A a, b \in DOMAIN map_users :
             map_users[a] = map_users[b] => a = b
        /\ \A a, b \in DOMAIN map_items :
             map_items[a] = map_items[b] => a = b

ContiguityWitness ==
    /\ pc # "init"
    /\ Len(df) = 2 /\ df[1].user = 2 /\ df[2].user = 1
    /\ df[1].item = 2 /\ df[2].item = 1
    /\ ~ items_list.given
    /\ Nusers = 2 /\ Nitems = 2

LookupErrorRaised ==
    (/\ pc = "mapped"
     /\ \E p \in NonZeroCells(X) :
            p[1] \notin DOMAIN map_back_users \/ p[2] \notin DOMAIN map_back_items)
        => /\ err = "LookupError"
           /\ \A k \in DOMAIN out_df.rows :
                out_df.rows[k].user # NaN /\ out_df.rows[k].item # NaN

\* C8: gen_affinity_matrix fails, and returns no matrix, when a record's
\* mapped coordinate is outside [0, Nusers) x [0, Nitems), as for an item that
\* is not in the supplied items_list.
ShapeErrorRaised ==
    (/\ pc # "init"
     /\ \E k \in DOMAIN df_ :
            \/ df_[k].hashedUsers \notin 0..(Nusers - 1)
            \/ df_[k].hashedItems \notin 0..(Nitems - 1))
        => pc = "failed" /\ err # "none" /\ AM = EmptyMatrix

\* C9: map_back_sparse emits one record per non-zero cell of X and none for
\* a zero cell, in row-major order with ascending columns: record number
\* 1 + (non-zero cells before (i, j)) is (map_back_users[i],
\* map_back_items[j], X[i][j]). An all-zero row adds nothing, raises nothing.
OneRecordPerNonZeroCell ==
    pc = "mapped" =>
        /\ err = "none"
        /\ Len(out_df.rows) = Cardinality(NonZeroCells(X))
        /\ \A p \in NonZeroCells(X) :
             LET n == 1 + Cardinality({q \in NonZeroCells(X) : LexLess(q, p)})
             IN  /\ out_df.rows[n].value = X.cell[p]
                 /\ p[1] \in DOMAIN map_back_users =>
                      out_df.rows[n].user = map_back_users[p[1]]
                 /\ p[2] \in DOMAIN map_back_items =>
                      out_df.rows[n].item = map_back_items[p[2]]

OneRecordPerNonZeroCellWitness ==
    /\ pc = "mapped"
    /\ X.shape = <<2, 2>>
    /\ X.cell[<<0, 0>>] = 0 /\ X.cell[<<0, 1>>] = 0
    /\ X.cell[<<1, 0>>] = -1 /\ X.cell[<<1, 1>>] = 1
    /\ Nusers = 2 /\ Nitems = 2
    /\ Len(out_df.rows) = 2

\* C10: duplicates. When every observed item has a column, records that map
\* to one (user, item) pair raise nothing and the pair's cell is the sum of
\* their ratings, whatever their order; a pair whose ratings sum to 0 has a
\* zero cell and no record in map_back_sparse's output.
DuplicatesSummed ==
    (pc # "init" /\ ItemsCovered) =>
        /\ pc # "failed" /\ err = "none"
        /\ \A u \in DistinctUsers, i \in ObservedItems :
             PairCount(u, i) >= 2 =>
                /\ AM.cell[<<map_users[u], map_items[i]>>]
                       = PairSum(u, i, Len(df))
                /\ (pc = "mapped" /\ PairSum(u, i, Len(df)) = 0) =>
                     \A k \in DOMAIN out_df.rows :
                        ~ (out_df.rows[k].user = u /\ out_df.rows[k].item = i)

DuplicatesSummedWitness ==
    /\ pc = "mapped"
    /\ Len(df) = 2
    /\ df[1].user = df[2].user /\ df[1].item = df[2].item
    /\ df[1].rating = 1 /\ df[2].rating = -1
    /\ out_df.rows = <<>>

====
